---- MODULE Spec2Model ----
(***************************************************************************)
(* Model of custom_components/sensor/twentemilieu.py: the WasteApiReader   *)
(* (once-per-day throttled fetch, calendar parser, query methods) and the  *)
(* sensor entities that share one reader.                                  *)
(*                                                                         *)
(* Python values are modelled as follows.                                  *)
(*   str used as data to slice/parse : sequence of one-character strings   *)
(*   str used as an opaque label     : TLA+ string                         *)
(*   dict (JSON object)              : record; a missing key is a field    *)
(*                                     that is not in DOMAIN               *)
(*   list                            : sequence                            *)
(*   datetime.date                   : record [year, month, day]           *)
(*   Optional value                  : <<>> for None, <<x>> for x          *)
(*   a raised exception              : the exception's class name          *)
(***************************************************************************)
EXTENDS Integers, Sequences, FiniteSets, TLC

\* Number of midnights the wall clock passes in a run.
MaxDay == 2

\* Optional[T]: None is the empty sequence, a value x is <<x>>.
None == <<>>

Some(x) == <<x>>

(***************************************************************************)
(* datetime.date, timedelta(days=1), datetime.strptime(.., '%Y-%m-%d')     *)
(***************************************************************************)
Date(y, m, d) == [year |-> y, month |-> m, day |-> d]

IsLeap(y) == (y % 4 = 0 /\ y % 100 # 0) \/ (y % 400 = 0)

DaysInMonth(y, m) ==
    IF m = 2 THEN (IF IsLeap(y) THEN 29 ELSE 28)
    ELSE IF m \in {4, 6, 9, 11} THEN 30 ELSE 31

\* date.__lt__ / date.__le__: chronological order.
DateLT(a, b) ==
    \/ a.year < b.year
    \/ a.year = b.year /\ a.month < b.month
    \/ a.year = b.year /\ a.month = b.month /\ a.day < b.day

DateLE(a, b) == a = b \/ DateLT(a, b)

\* d + timedelta(days=1)
AddDay(d) ==
    IF d.day < DaysInMonth(d.year, d.month) THEN Date(d.year, d.month, d.day + 1)
    ELSE IF d.month < 12 THEN Date(d.year, d.month + 1, 1)
    ELSE Date(d.year + 1, 1, 1)

RECURSIVE AddDays(_, _)
AddDays(d, n) == IF n = 0 THEN d ELSE AddDays(AddDay(d), n - 1)

DigitChars == <<"0", "1", "2", "3", "4", "5", "6", "7", "8", "9">>

IsDigit(c) == \E k \in 1..10 : DigitChars[k] = c

DigitVal(c) == (CHOOSE k \in 1..10 : DigitChars[k] = c) - 1

AllDigits(s) == \A k \in 1..Len(s) : IsDigit(s[k])

RECURSIVE NumVal(_)
NumVal(s) ==
    IF Len(s) = 0 THEN 0
    ELSE 10 * NumVal(SubSeq(s, 1, Len(s) - 1)) + DigitVal(s[Len(s)])

\* s[0:10]: a slice never raises, a shorter string is returned whole.
Slice10(s) == SubSeq(s, 1, IF Len(s) < 10 THEN Len(s) ELSE 10)

\* The %m directive: 1[0-2]|0[1-9]|[1-9]
MonthToken(t) ==
    /\ Len(t) \in {1, 2}
    /\ AllDigits(t)
    /\ NumVal(t) \in 1..12

\* The %d directive: 3[01]|[12]\d|0[1-9]|[1-9]| [1-9]
DayToken(t) ==
    \/ Len(t) \in {1, 2} /\ AllDigits(t) /\ NumVal(t) \in 1..31
    \/ Len(t) = 2 /\ t[1] = " " /\ IsDigit(t[2]) /\ DigitVal(t[2]) \in 1..9

DayVal(t) == IF t[1] = " " THEN DigitVal(t[2]) ELSE NumVal(t)

\* The fields of s split as \d{4} "-" month "-" day (the format '%Y-%m-%d').
StrpFields(s) ==
    LET rest == SubSeq(s, 6, Len(s))
        p == CHOOSE q \in 1..Len(rest) : rest[q] = "-"
    IN  [Y |-> SubSeq(s, 1, 4),
         m |-> SubSeq(rest, 1, p - 1),
         d |-> SubSeq(rest, p + 1, Len(rest))]

\* datetime.strptime(s, '%Y-%m-%d') returns: s matches the format in full and
\* names a day of the calendar. Otherwise strptime raises ValueError.
StrpMatches(s) ==
    /\ Len(s) >= 8
    /\ AllDigits(SubSeq(s, 1, 4))
    /\ s[5] = "-"
    /\ Cardinality({q \in 6..Len(s) : s[q] = "-"}) = 1
    /\ LET f == StrpFields(s)
       IN  /\ MonthToken(f.m)
           /\ DayToken(f.d)
           /\ NumVal(f.Y) >= 1
           /\ DayVal(f.d) <= DaysInMonth(NumVal(f.Y), NumVal(f.m))

\* datetime.strptime(s, '%Y-%m-%d').date() when StrpMatches(s).
StrpDate(s) ==
    LET f == StrpFields(s)
    IN  Date(NumVal(f.Y), NumVal(f.m), DayVal(f.d))

\* str.upper() / str.lower() on ASCII letters.
LowerChars == <<"a", "b", "c", "d", "e", "f", "g", "h", "i", "j", "k", "l", "m",
                "n", "o", "p", "q", "r", "s", "t", "u", "v", "w", "x", "y", "z">>

UpperChars == <<"A", "B", "C", "D", "E", "F", "G", "H", "I", "J", "K", "L", "M",
                "N", "O", "P", "Q", "R", "S", "T", "U", "V", "W", "X", "Y", "Z">>

UpperChar(c) ==
    IF \E k \in 1..26 : LowerChars[k] = c
    THEN UpperChars[CHOOSE k \in 1..26 : LowerChars[k] = c]
    ELSE c

LowerChar(c) ==
    IF \E k \in 1..26 : UpperChars[k] = c
    THEN LowerChars[CHOOSE k \in 1..26 : UpperChars[k] = c]
    ELSE c

Upper(s) == [k \in 1..Len(s) |-> UpperChar(s[k])]

Lower(s) == [k \in 1..Len(s) |-> LowerChar(s[k])]

(***************************************************************************)
(* Configuration: SENSOR_TYPES and the platform's resources                *)
(***************************************************************************)
KeyToday == <<"t", "o", "d", "a", "y">>

KeyTomorrow == <<"t", "o", "m", "o", "r", "r", "o", "w">>

KeyGrey == <<"g", "r", "e", "y">>

KeyPaper == <<"p", "a", "p", "e", "r">>

KeyGreen == <<"g", "r", "e", "e", "n">>

KeyPackages == <<"p", "a", "c", "k", "a", "g", "e", "s">>

\* SENSOR_TYPES[key][0], the display name of each sensor type.
SENSOR_TYPES ==
    [k \in {KeyToday, KeyTomorrow, KeyGrey, KeyPaper, KeyGreen, KeyPackages} |->
        CASE k = KeyToday -> "Vandaag"
          [] k = KeyTomorrow -> "Morgen"
          [] k = KeyGrey -> "Restafval"
          [] k = KeyPaper -> "Papier en karton"
          [] k = KeyGreen -> "Groente, fruit- en tuinafval"
          [] k = KeyPackages -> "PMD"]

\* config[CONF_RESOURCES]: the sensors of the platform, which setup_platform
\* creates over one shared reader.
Resources == <<KeyToday, KeyTomorrow, KeyGrey>>

Entities == DOMAIN Resources

(***************************************************************************)
(* What the remote API can answer                                          *)
(***************************************************************************)
Midnight == <<"T", "0", "0", ":", "0", "0", ":", "0", "0">>

S_0228 == <<"2", "0", "2", "4", "-", "0", "2", "-", "2", "8">> \o Midnight

S_0229 == <<"2", "0", "2", "4", "-", "0", "2", "-", "2", "9">> \o Midnight

S_0301 == <<"2", "0", "2", "4", "-", "0", "3", "-", "0", "1">> \o Midnight

S_0302 == <<"2", "0", "2", "4", "-", "0", "3", "-", "0", "2">> \o Midnight

\* The same day as S_0302 with another time of day.
S_0302_1030 ==
    <<"2", "0", "2", "4", "-", "0", "3", "-", "0", "2">>
        \o <<"T", "1", "0", ":", "3", "0", ":", "0", "0">>

\* Day first: not the format the parser expects.
S_DayFirst == <<"0", "1", "-", "0", "3", "-", "2", "0", "2", "4">> \o Midnight

GREY == <<"G", "R", "E", "Y">>

PAPER == <<"P", "A", "P", "E", "R">>

GLASS == <<"G", "L", "A", "S", "S">>

PickupType(text, dates) == [_pickupTypeText |-> text, pickupDates |-> dates]

\* FetchAdress response bodies (parsed JSON).
AddressResponses ==
    { [dataList |-> <<[UniqueId |-> "address-1"]>>],
      [dataList |-> <<[UniqueId |-> "address-1"], [UniqueId |-> "address-2"]>>],
      [dataList |-> <<>>],
      [dataList |-> <<[Street |-> "x"]>>],
      [status |-> "error"] }

\* GetCalendar response bodies (parsed JSON): well-formed ones (empty, one
\* record, unsorted with several dates per type and two types on one day, a
\* type outside SENSOR_TYPES sharing the earliest day) and malformed ones (no dataList, no pickupDates,
\* no _pickupTypeText, a date in another format after a good one).
CalendarResponses ==
    { [dataList |-> <<>>],
      [dataList |-> <<PickupType(GREY, <<S_0301>>)>>],
      [dataList |-> <<PickupType(PAPER, <<S_0302, S_0229>>),
                      PickupType(GREY, <<S_0302_1030, S_0301, S_0228>>)>>],
      [dataList |-> <<PickupType(GLASS, <<S_0229>>), PickupType(GREY, <<>>),
                      PickupType(PAPER, <<S_0229>>)>>],
      [status |-> "error"],
      [dataList |-> <<PickupType(GREY, <<S_0301>>), [_pickupTypeText |-> PAPER]>>],
      [dataList |-> <<[pickupDates |-> <<>>], [pickupDates |-> <<S_0301>>]>>],
      [dataList |-> <<PickupType(GREY, <<S_0229, S_DayFirst>>)>>] }

(***************************************************************************)
(* WasteSchedule and the reader's pure helpers                             *)
(***************************************************************************)
WasteSchedule(trash_type, pickup_date) ==
    [trash_type |-> trash_type, pickup_date |-> pickup_date]

\* InsertByDate as an unstable sort would do it: x goes before the elements
\* of its own key.
InsertBeforeEqual(sorted, x) ==
    LET k == Cardinality({p \in 1..Len(sorted) :
                            DateLT(sorted[p].pickup_date, x.pickup_date)})
    IN  SubSeq(sorted, 1, k) \o <<x>> \o SubSeq(sorted, k + 1, Len(sorted))

\* One step of sorted(.., key=pickup_date): x goes after every element whose
\* key is <= its own (the sort is stable).
InsertByDate(sorted, x) ==
    LET k == Cardinality({p \in 1..Len(sorted) :
                            DateLE(sorted[p].pickup_date, x.pickup_date)})
    IN  SubSeq(sorted, 1, k) \o <<x>> \o SubSeq(sorted, k + 1, Len(sorted))

\* sorted() left out: the list in payload order.
Unsorted(list) == list

RECURSIVE SortedByDate(_)
SortedByDate(list) ==
    IF list = <<>> THEN <<>>
    ELSE InsertByDate(SortedByDate(SubSeq(list, 1, Len(list) - 1)), list[Len(list)])

\* next((s for s in list if pred(s)), None), given the indices where pred holds.
FirstAt(list, idx) ==
    IF idx = {} THEN None
    ELSE Some(list[CHOOSE k \in idx : \A m \in idx : k <= m])

\* next_collection taking the other end of the list.
next_collection_last(list) == IF list # <<>> THEN Some(list[Len(list)]) ELSE None

\* next_collection_of keeping the last match instead of the first.
next_collection_of_last(list, type) ==
    LET idx == {k \in 1..Len(list) : list[k].trash_type = type}
    IN  IF idx = {} THEN None
        ELSE Some(list[CHOOSE k \in idx : \A m \in idx : k >= m])

\* collection_on comparing with >= instead of ==.
collection_on_or_after(list, date) ==
    FirstAt(list, {k \in 1..Len(list) : DateLE(date, list[k].pickup_date)})

next_collection(list) == IF list # <<>> THEN Some(list[1]) ELSE None

next_collection_of(list, type) ==
    FirstAt(list, {k \in 1..Len(list) : list[k].trash_type = type})

collection_on(list, date) ==
    FirstAt(list, {k \in 1..Len(list) : list[k].pickup_date = date})

\* response['dataList'][0]['UniqueId']: the exception the lookup raises, or
\* "None" when it returns.
AddressLookupError(response) ==
    IF "dataList" \notin DOMAIN response THEN "KeyError"
    ELSE IF Len(response.dataList) = 0 THEN "IndexError"
    ELSE IF "UniqueId" \notin DOMAIN response.dataList[1] THEN "KeyError"
    ELSE "None"

\* The exception _parse_calendar raises at loop position (i, j) of the
\* calendar, or "None" when the position executes normally.
ParseError(cal, i, j) ==
    IF "dataList" \notin DOMAIN cal THEN "KeyError"
    ELSE IF i > Len(cal.dataList) THEN "None"
    ELSE IF "pickupDates" \notin DOMAIN cal.dataList[i] THEN "KeyError"
    ELSE IF j > Len(cal.dataList[i].pickupDates) THEN "None"
    ELSE IF "_pickupTypeText" \notin DOMAIN cal.dataList[i] THEN "KeyError"
    ELSE IF ~StrpMatches(Slice10(cal.dataList[i].pickupDates[j])) THEN "ValueError"
    ELSE "None"

(***************************************************************************)
(* State                                                                   *)
(***************************************************************************)
VARIABLES
    now,              \* datetime.now().date(), the wall clock's day
    _schedules,       \* WasteApiReader._schedules
    _lastupdated,     \* WasteApiReader._lastupdated
    _schedule,        \* AbstractWasteSensor._schedule of each entity
    pc,               \* where the entity update in progress stands
    caller,           \* the entity whose update() is in progress
    address_id,       \* update(): local address_id
    pickup_calendar,  \* update(): local pickup_calendar
    i,                \* _parse_calendar: position in waste_calendar['dataList']
    j,                \* _parse_calendar: position in pickup_type['pickupDates']
    schedules,        \* _parse_calendar: local list schedules
    exc,              \* exception the latest reader.update() call raised
    requests,         \* history: the POST requests issued and how each ended
    held,             \* history: _schedules when the update in progress began
    outcome,          \* history: how the latest fetch attempt ended
    readers           \* the WasteApiReader instances of two other platforms

platform == <<_schedules, _lastupdated, _schedule, pc, caller, address_id,
              pickup_calendar, i, j, schedules, exc, requests, held, outcome>>

vars == <<now, platform, readers>>

locals == <<address_id, pickup_calendar, i, j, schedules>>

StartDate == Date(2024, 2, 28)

\* Two more platforms, each set up once for an address of its own.
ReaderIds == {"A", "B"}

\* WasteApiReader.__init__. Two fields are history: fetched, the dates on
\* which the instance went past the throttle, and called, which alternates
\* with every update() call on the instance.
NewReader ==
    [_schedules |-> <<>>, _lastupdated |-> None, fetched |-> {}, called |-> FALSE]

LastDate == AddDays(StartDate, MaxDay)

Init ==
    /\ now = StartDate
    /\ _schedules = <<>>
    /\ _lastupdated = None
    /\ _schedule = [e \in Entities |-> None]
    /\ pc = "idle"
    /\ caller = None
    /\ address_id = None
    /\ pickup_calendar = None
    /\ i = 1
    /\ j = 1
    /\ schedules = <<>>
    /\ exc = "None"
    /\ requests = <<>>
    /\ held = <<>>
    /\ outcome = "none"
    /\ readers = [r \in ReaderIds |-> NewReader]

\* The locals of update() and _parse_calendar are kept, as history, until the
\* entity's update() that called them ends.
DropLocals ==
    /\ address_id' = None
    /\ pickup_calendar' = None
    /\ i' = 1
    /\ j' = 1
    /\ schedules' = <<>>

Request(action, id, result) ==
    [action |-> action, uniqueAddressId |-> id, lastupdated |-> _lastupdated,
     result |-> result]

(***************************************************************************)
(* The wall clock                                                          *)
(***************************************************************************)
Tick ==
    /\ now # LastDate
    /\ now' = AddDay(now)
    /\ UNCHANGED <<_schedules, _lastupdated, _schedule, pc, caller, locals, exc,
                   requests, held, outcome>>

(***************************************************************************)
(* WasteApiReader.update, entered from an entity's update()                *)
(***************************************************************************)
\* Line 121-122: the watermark is today's date, update() returns at once.
UpdateThrottled(e) ==
    /\ pc = "idle"
    /\ _lastupdated = Some(now)
    /\ pc' = "returned_early"
    /\ caller' = Some(e)
    /\ exc' = "None"
    /\ held' = _schedules
    /\ UNCHANGED <<now, _schedules, _lastupdated, _schedule, locals, requests,
                   outcome>>

\* UpdateBegin without the comparison of line 121.
UpdateBeginAnyDay(e) ==
    /\ pc = "idle"
    /\ pc' = "stamp"
    /\ caller' = Some(e)
    /\ exc' = "None"
    /\ held' = _schedules
    /\ outcome' = "pending"
    /\ UNCHANGED <<now, _schedules, _lastupdated, _schedule, locals, requests>>

\* Line 121: the watermark is not today's date, update() goes on.
UpdateBegin(e) ==
    /\ pc = "idle"
    /\ _lastupdated # Some(now)
    /\ pc' = "stamp"
    /\ caller' = Some(e)
    /\ exc' = "None"
    /\ held' = _schedules
    /\ outcome' = "pending"
    /\ UNCHANGED <<now, _schedules, _lastupdated, _schedule, locals, requests>>

\* Line 124: the clock is read again and stored as the watermark.
UpdateStamp ==
    /\ pc = "stamp"
    /\ _lastupdated' = Some(now)
    /\ pc' = "find_address"
    /\ UNCHANGED <<now, _schedules, _schedule, caller, locals, exc, requests,
                   held, outcome>>

\* Raise with line 132 left out: the cache survives a RequestException.
RaiseKeepingCache(x, cause) ==
    /\ _schedules' = _schedules
    /\ exc' = IF x = "RequestException" THEN "WasteApiException" ELSE x
    /\ outcome' = cause
    /\ pc' = "raised"
    /\ UNCHANGED <<_lastupdated, locals>>

\* Raise with the watermark taken back when the fetch fails.
RaiseResettingWatermark(x, cause) ==
    /\ _schedules' = IF x = "RequestException" THEN <<>> ELSE _schedules
    /\ _lastupdated' = IF x = "RequestException" THEN None ELSE _lastupdated
    /\ exc' = IF x = "RequestException" THEN "WasteApiException" ELSE x
    /\ outcome' = cause
    /\ pc' = "raised"
    /\ UNCHANGED locals

\* Lines 127-134: exception x leaves the try block. A RequestException is
\* caught: the cache is cleared and WasteApiException raised. Any other
\* exception matches no except clause and leaves update() as it is.
Raise(x, cause) ==
    /\ _schedules' = IF x = "RequestException" THEN <<>> ELSE _schedules
    /\ exc' = IF x = "RequestException" THEN "WasteApiException" ELSE x
    /\ outcome' = cause
    /\ pc' = "raised"
    /\ UNCHANGED <<_lastupdated, locals>>

\* requests.post(..) raises a RequestException (connection error, timeout)
\* in _find_unique_address_id.
FindAddressTransportError ==
    /\ pc = "find_address"
    /\ requests' = Append(requests, Request("FetchAdress", None, "RequestException"))
    /\ Raise("RequestException", "transport")
    /\ UNCHANGED <<now, _schedule, caller, held>>

\* The FetchAdress response body is not JSON: .json() raises. The class it
\* raises depends on the installed requests: a ValueError before 2.27, from
\* then on requests.exceptions.JSONDecodeError, a RequestException.
FindAddressNotJson(x) ==
    /\ pc = "find_address"
    /\ requests' = Append(requests, Request("FetchAdress", None, "NotJson"))
    /\ Raise(x, "not_json")
    /\ UNCHANGED <<now, _schedule, caller, held>>

\* The FetchAdress response holds no response['dataList'][0]['UniqueId'].
FindAddressLookupError(response) ==
    /\ pc = "find_address"
    /\ AddressLookupError(response) # "None"
    /\ requests' = Append(requests, Request("FetchAdress", None, "Response"))
    /\ Raise(AddressLookupError(response),
             IF AddressLookupError(response) = "IndexError"
             THEN "address_not_found" ELSE "address_malformed")
    /\ UNCHANGED <<now, _schedule, caller, held>>

\* FindUniqueAddressId returning the last address's UniqueId, not the first.
FindLastAddressId(response) ==
    /\ pc = "find_address"
    /\ AddressLookupError(response) = "None"
    /\ requests' = Append(requests, Request("FetchAdress", None, "Response"))
    /\ address_id' = Some(response.dataList[Len(response.dataList)].UniqueId)
    /\ pc' = "get_calendar"
    /\ UNCHANGED <<now, _schedules, _lastupdated, _schedule, caller,
                   pickup_calendar, i, j, schedules, exc, held, outcome>>

\* _find_unique_address_id returns the first address's UniqueId.
FindUniqueAddressId(response) ==
    /\ pc = "find_address"
    /\ AddressLookupError(response) = "None"
    /\ requests' = Append(requests, Request("FetchAdress", None, "Response"))
    /\ address_id' = Some(response.dataList[1].UniqueId)
    /\ pc' = "get_calendar"
    /\ UNCHANGED <<now, _schedules, _lastupdated, _schedule, caller,
                   pickup_calendar, i, j, schedules, exc, held, outcome>>

GetCalendarTransportError ==
    /\ pc = "get_calendar"
    /\ requests' = Append(requests, Request("GetCalendar", address_id, "RequestException"))
    /\ Raise("RequestException", "transport")
    /\ UNCHANGED <<now, _schedule, caller, held>>

GetCalendarNotJson(x) ==
    /\ pc = "get_calendar"
    /\ requests' = Append(requests, Request("GetCalendar", address_id, "NotJson"))
    /\ Raise(x, "not_json")
    /\ UNCHANGED <<now, _schedule, caller, held>>

\* _get_pickup_calendar returns the response; _parse_calendar is entered and
\* its local list created (line 168).
GetPickupCalendar(response) ==
    /\ pc = "get_calendar"
    /\ requests' = Append(requests, Request("GetCalendar", address_id, "Response"))
    /\ pickup_calendar' = Some(response)
    /\ i' = 1
    /\ j' = 1
    /\ schedules' = <<>>
    /\ pc' = "parse"
    /\ UNCHANGED <<now, _schedules, _lastupdated, _schedule, caller, address_id,
                   exc, held, outcome>>

(***************************************************************************)
(* WasteApiReader._parse_calendar, one loop position at a time             *)
(***************************************************************************)
waste_calendar == pickup_calendar[1]

\* Lines 170-174: a key is missing or the date does not parse.
ParseRaises ==
    /\ pc = "parse"
    /\ ParseError(waste_calendar, i, j) # "None"
    /\ Raise(ParseError(waste_calendar, i, j),
             IF ParseError(waste_calendar, i, j) = "KeyError"
             THEN "missing_field" ELSE "bad_date")
    /\ UNCHANGED <<now, _schedule, caller, requests, held>>

\* ParseAppend appending to self._schedules itself instead of a local list.
ParseAppendInPlace ==
    /\ pc = "parse"
    /\ ParseError(waste_calendar, i, j) = "None"
    /\ i <= Len(waste_calendar.dataList)
    /\ j <= Len(waste_calendar.dataList[i].pickupDates)
    /\ LET pickup_type == waste_calendar.dataList[i]
           trash_type == pickup_type._pickupTypeText
           trash_date == StrpDate(Slice10(pickup_type.pickupDates[j]))
       IN  /\ schedules' = Append(schedules, WasteSchedule(trash_type, trash_date))
           /\ _schedules' = Append(_schedules, WasteSchedule(trash_type, trash_date))
    /\ j' = j + 1
    /\ UNCHANGED <<now, _lastupdated, _schedule, pc, caller, address_id,
                   pickup_calendar, i, exc, requests, held, outcome>>

\* ParseAppend leaving the inner loop after the first date of a pickup type.
ParseAppendOncePerType ==
    /\ pc = "parse"
    /\ ParseError(waste_calendar, i, j) = "None"
    /\ i <= Len(waste_calendar.dataList)
    /\ j <= Len(waste_calendar.dataList[i].pickupDates)
    /\ LET pickup_type == waste_calendar.dataList[i]
           trash_type == pickup_type._pickupTypeText
           trash_date == StrpDate(Slice10(pickup_type.pickupDates[j]))
       IN  schedules' = Append(schedules, WasteSchedule(trash_type, trash_date))
    /\ j' = Len(waste_calendar.dataList[i].pickupDates) + 1
    /\ UNCHANGED <<now, _schedules, _lastupdated, _schedule, pc, caller,
                   address_id, pickup_calendar, i, exc, requests, held, outcome>>

\* Lines 172-176: one pickup date becomes one WasteSchedule of the local list.
ParseAppend ==
    /\ pc = "parse"
    /\ ParseError(waste_calendar, i, j) = "None"
    /\ i <= Len(waste_calendar.dataList)
    /\ j <= Len(waste_calendar.dataList[i].pickupDates)
    /\ LET pickup_type == waste_calendar.dataList[i]
           trash_type == pickup_type._pickupTypeText
           trash_date == StrpDate(Slice10(pickup_type.pickupDates[j]))
       IN  schedules' = Append(schedules, WasteSchedule(trash_type, trash_date))
    /\ j' = j + 1
    /\ UNCHANGED <<now, _schedules, _lastupdated, _schedule, pc, caller,
                   address_id, pickup_calendar, i, exc, requests, held, outcome>>

\* Line 171 is exhausted: the outer loop takes the next pickup type.
ParseNextType ==
    /\ pc = "parse"
    /\ ParseError(waste_calendar, i, j) = "None"
    /\ i <= Len(waste_calendar.dataList)
    /\ j > Len(waste_calendar.dataList[i].pickupDates)
    /\ i' = i + 1
    /\ j' = 1
    /\ UNCHANGED <<now, _schedules, _lastupdated, _schedule, pc, caller,
                   address_id, pickup_calendar, schedules, exc, requests, held,
                   outcome>>

\* Line 178: the sorted list replaces self._schedules, update() returns.
ParseStore ==
    /\ pc = "parse"
    /\ ParseError(waste_calendar, i, j) = "None"
    /\ i > Len(waste_calendar.dataList)
    /\ _schedules' = SortedByDate(schedules)
    /\ outcome' = "ok"
    /\ pc' = "returned"
    /\ UNCHANGED <<now, _lastupdated, _schedule, caller, locals, exc, requests,
                   held>>

(***************************************************************************)
(* The entities' update(), after reader.update()                           *)
(***************************************************************************)
\* collection_tomorrow without the timedelta of line 117.
collection_tomorrow_same_day == collection_on(_schedules, now)

collection_today == collection_on(_schedules, now)

collection_tomorrow == collection_on(_schedules, AddDay(now))

\* Lines 229, 239, 256: the query each kind of entity stores.
EntityQuery(e) ==
    IF Resources[e] = KeyToday THEN collection_today
    ELSE IF Resources[e] = KeyTomorrow THEN collection_tomorrow
    ELSE next_collection_of(_schedules, Upper(Resources[e]))

\* EntityStore with a query that takes the record it returns off the cache.
EntityStoreConsuming ==
    /\ pc \in {"returned_early", "returned"}
    /\ _schedule' = [_schedule EXCEPT ![caller[1]] = EntityQuery(caller[1])]
    /\ _schedules' = IF EntityQuery(caller[1]) = None THEN _schedules
                     ELSE SelectSeq(_schedules,
                                    LAMBDA r : r # EntityQuery(caller[1])[1])
    /\ pc' = "idle"
    /\ caller' = None
    /\ held' = <<>>
    /\ DropLocals
    /\ UNCHANGED <<now, _lastupdated, exc, requests, outcome>>

\* reader.update() returned: the entity stores its query's result.
EntityStore ==
    /\ pc \in {"returned_early", "returned"}
    /\ _schedule' = [_schedule EXCEPT ![caller[1]] = EntityQuery(caller[1])]
    /\ pc' = "idle"
    /\ caller' = None
    /\ held' = <<>>
    /\ DropLocals
    /\ UNCHANGED <<now, _schedules, _lastupdated, exc, requests, outcome>>

\* reader.update() raised: the entity's update() has no handler, the
\* exception leaves it before the assignment to self._schedule.
EntityRaises ==
    /\ pc = "raised"
    /\ pc' = "idle"
    /\ caller' = None
    /\ held' = <<>>
    /\ DropLocals
    /\ UNCHANGED <<now, _schedules, _lastupdated, _schedule, exc, requests,
                   outcome>>

JsonErrors == {"RequestException", "ValueError"}

Next ==
    \/ Tick /\ UNCHANGED readers
    \/ \E e \in Entities : UpdateThrottled(e) /\ UNCHANGED readers
    \/ \E e \in Entities : UpdateBegin(e) /\ UNCHANGED readers
    \/ UpdateStamp /\ UNCHANGED readers
    \/ FindAddressTransportError /\ UNCHANGED readers
    \/ \E x \in JsonErrors : FindAddressNotJson(x) /\ UNCHANGED readers
    \/ \E r \in AddressResponses : FindAddressLookupError(r) /\ UNCHANGED readers
    \/ \E r \in AddressResponses : FindUniqueAddressId(r) /\ UNCHANGED readers
    \/ GetCalendarTransportError /\ UNCHANGED readers
    \/ \E x \in JsonErrors : GetCalendarNotJson(x) /\ UNCHANGED readers
    \/ \E r \in CalendarResponses : GetPickupCalendar(r) /\ UNCHANGED readers
    \/ ParseRaises /\ UNCHANGED readers
    \/ ParseAppend /\ UNCHANGED readers
    \/ ParseNextType /\ UNCHANGED readers
    \/ ParseStore /\ UNCHANGED readers
    \/ EntityStore /\ UNCHANGED readers
    \/ EntityRaises /\ UNCHANGED readers

Spec == Init /\ [][Next]_vars

(***************************************************************************)
(* The entities' state property                                            *)
(***************************************************************************)
\* The decimal digits of n, zero-padded to width characters.
Padded(n, width) ==
    [k \in 1..width |-> DigitChars[((n \div (10 ^ (width - k))) % 10) + 1]]

\* date.strftime('%Y-%m-%d')
Strftime(d) ==
    Padded(d.year, 4) \o <<"-">> \o Padded(d.month, 2) \o <<"-">> \o Padded(d.day, 2)

\* AbstractWasteSensor.state, which WasteTypeSensor inherits, for the value
\* of self._schedule: None or the pickup date as text.
TypeSensorState(schedule) ==
    IF schedule = None THEN None ELSE Some(Strftime(schedule[1].pickup_date))

\* TodayWasteSensor.state and TomorrowWasteSensor.state for the value of
\* self._schedule: 'Geen', the display name of the trash type, or "KeyError"
\* when the lookup in SENSOR_TYPES raises it.
DaySensorState(schedule) ==
    IF schedule = None THEN "Geen"
    ELSE IF Lower(schedule[1].trash_type) \in DOMAIN SENSOR_TYPES
         THEN SENSOR_TYPES[Lower(schedule[1].trash_type)]
         ELSE "KeyError"

IsDayEntity(e) == Resources[e] \in {KeyToday, KeyTomorrow}

(***************************************************************************)
(* _parse_calendar as a function of the calendar                           *)
(***************************************************************************)
\* Every pickup date of the calendar can be turned into a record.
CalendarParses(cal) ==
    /\ "dataList" \in DOMAIN cal
    /\ \A a \in 1..Len(cal.dataList) :
          /\ "pickupDates" \in DOMAIN cal.dataList[a]
          /\ \A b \in 1..Len(cal.dataList[a].pickupDates) :
                /\ "_pickupTypeText" \in DOMAIN cal.dataList[a]
                /\ StrpMatches(Slice10(cal.dataList[a].pickupDates[b]))

\* The records of one pickup type, in the order of its pickupDates.
TypeRecords(pickup_type) ==
    [b \in 1..Len(pickup_type.pickupDates) |->
        WasteSchedule(pickup_type._pickupTypeText,
                      StrpDate(Slice10(pickup_type.pickupDates[b])))]

RECURSIVE RecordsOf(_)
RecordsOf(dataList) ==
    IF dataList = <<>> THEN <<>>
    ELSE RecordsOf(SubSeq(dataList, 1, Len(dataList) - 1))
            \o TypeRecords(dataList[Len(dataList)])

\* The snapshot a calendar that parses stands for.
Snapshot(cal) == SortedByDate(RecordsOf(cal.dataList))

(***************************************************************************)
(* Two reader instances, each update() taken as a whole                    *)
(***************************************************************************)
\* What the two requests of one update() meet: the exception requests.post
\* or .json() raises ("None" when it returns) and the body it returns.
PostErrors == {"None", "RequestException", "ValueError"}

\* The exception that leaves the try block of update() (lines 128-130), or
\* "None" when the calendar is parsed and stored.
TryError(address_error, address, calendar_error, calendar) ==
    IF address_error # "None" THEN address_error
    ELSE IF AddressLookupError(address) # "None" THEN AddressLookupError(address)
    ELSE IF calendar_error # "None" THEN calendar_error
    ELSE IF ~CalendarParses(calendar) THEN "KeyError or ValueError"
    ELSE "None"

\* Lines 120-134 on instance self, on the day today: the instance afterwards.
Updated(self, today, address_error, address, calendar_error, calendar) ==
    IF self._lastupdated = Some(today) THEN self
    ELSE LET x == TryError(address_error, address, calendar_error, calendar)
         IN  [self EXCEPT
                 !._schedules = IF x = "None" THEN Snapshot(calendar)
                                ELSE IF x = "RequestException" THEN <<>>
                                ELSE self._schedules,
                 !._lastupdated = Some(today),
                 !.fetched = self.fetched \cup {today}]

\* ReaderUpdate with _schedules and _lastupdated held by the class, not by
\* the instance: every instance sees what one of them stores.
ReaderUpdateOnClass(r, address_error, address, calendar_error, calendar) ==
    /\ readers' =
          [o \in ReaderIds |->
              LET u == Updated(readers[r], now, address_error, address,
                               calendar_error, calendar)
              IN  IF o = r THEN [u EXCEPT !.called = ~u.called]
                  ELSE [readers[o] EXCEPT !._schedules = u._schedules,
                                          !._lastupdated = u._lastupdated]]
    /\ UNCHANGED <<now, platform>>

\* readers[r].update()
ReaderUpdate(r, address_error, address, calendar_error, calendar) ==
    /\ readers' = [readers EXCEPT ![r] =
                      [Updated(readers[r], now, address_error, address,
                               calendar_error, calendar)
                          EXCEPT !.called = ~readers[r].called]]
    /\ UNCHANGED <<now, platform>>

\* Some update() of instance r.
UpdateOf(r) ==
    \E address_error, calendar_error \in PostErrors :
        \E address \in AddressResponses, calendar \in CalendarResponses :
            ReaderUpdate(r, address_error, address, calendar_error, calendar)

NextTwoReaders ==
    \/ Tick /\ UNCHANGED readers
    \/ \E r \in ReaderIds : UpdateOf(r)

SpecTwoReaders == Init /\ [][NextTwoReaders]_vars

(***************************************************************************)
(* Properties                                                              *)
(***************************************************************************)
Last(seq) == seq[Len(seq)]

\* An entity's update() enters reader.update() in this step.
CallBegins == pc = "idle" /\ pc' # "idle"

\* No two requests of one action were issued under one watermark, and a
\* GetCalendar request directly follows the answered FetchAdress request of
\* the same watermark.
OneFetchPerWatermark ==
    /\ \A a, b \in DOMAIN requests :
          /\ requests[a].action = requests[b].action
          /\ requests[a].lastupdated = requests[b].lastupdated
          => a = b
    /\ \A k \in DOMAIN requests :
          /\ requests[k].lastupdated # None
          /\ requests[k].action = "GetCalendar"
             => /\ k > 1
                /\ requests[k - 1].action = "FetchAdress"
                /\ requests[k - 1].result = "Response"
                /\ requests[k - 1].lastupdated = requests[k].lastupdated

\* A call that finds the watermark equal to today's date returns at line 122
\* and leaves cache, watermark and request history as they were.
ThrottledCallIsNoOp ==
    CallBegins /\ _lastupdated = Some(now)
        => /\ pc' = "returned_early"
           /\ UNCHANGED <<_schedules, _lastupdated, requests>>

\* C1: at most one fetch (one FetchAdress request followed by at most one
\* GetCalendar request) is started per calendar day, the day of a fetch being
\* the date its call stored as the watermark; a refresh call made when the
\* watermark already equals today's date returns immediately, issues no
\* request and changes neither the cache nor the watermark. The calls come
\* from the three entities that share the reader.
C1_OneFetchPerDay == []OneFetchPerWatermark /\ [][ThrottledCallIsNoOp]_vars

\* Entity 3 was throttled on the day entity 1 stored the result of a fetch.
C1_Witness ==
    /\ pc = "returned_early"
    /\ caller = Some(3)
    /\ now = StartDate
    /\ _schedule[1] # None
    /\ Len(requests) = 2

\* A RequestException left the try block of the update in progress.
TransportErrorRaised == pc = "raised" /\ outcome = "transport"

AddressNotFoundRaised == pc = "raised" /\ outcome = "address_not_found"

\* C3: when the address lookup response has an empty dataList, refresh raises
\* an error that is not the transport error's, and the cache is empty after
\* the call whatever snapshot was held before it.
C3_AddressNotFound ==
    AddressNotFoundRaised
        => /\ exc \notin {"None", "WasteApiException"}
           /\ _schedules = <<>>

\* The calendar of the update in progress could not be parsed.
ParseErrorRaised == pc = "raised" /\ outcome \in {"missing_field", "bad_date"}

\* C4: when the calendar payload has an unexpected date format or a missing
\* field, refresh raises WasteApiException and the stale cache is cleared.
C4_ParseErrorTyped ==
    ParseErrorRaised
        => /\ exc = "WasteApiException"
           /\ _schedules = <<>>

\* The latest request issued ended in a RequestException.
TransportFailedLast == requests # <<>> /\ Last(requests).result = "RequestException"

\* While the failed request is the latest one, the cache is empty.
EmptyAfterTransportError == TransportFailedLast => _schedules = <<>>

\* A call on the day of the failed fetch is throttled and leaves the cache
\* empty; a call on another day goes on to store the watermark.
CallAfterTransportError ==
    CallBegins /\ TransportFailedLast
        => IF Last(requests).lastupdated = Some(now)
           THEN /\ pc' = "returned_early"
                /\ requests' = requests
                /\ _schedules' = <<>>
           ELSE pc' = "stamp"

\* A call that goes on stores today's date, then issues the FetchAdress
\* request under that watermark.
FetchStarts ==
    /\ pc = "stamp" /\ pc' # "stamp"
          => pc' = "find_address" /\ _lastupdated' = Some(now)
    /\ pc = "find_address" /\ pc' # "find_address"
          => /\ Len(requests') = Len(requests) + 1
             /\ Last(requests').action = "FetchAdress"
             /\ Last(requests').lastupdated = _lastupdated

\* A fetch that succeeds stores the snapshot of the calendar it fetched.
SuccessStoresSnapshot ==
    pc = "parse" /\ pc' = "returned"
        => /\ CalendarParses(waste_calendar)
           /\ _schedules' = Snapshot(waste_calendar)

IsSortedByDate(list) ==
    \A a, b \in 1..Len(list) :
        a < b => DateLE(list[a].pickup_date, list[b].pickup_date)

\* C6: in every reachable state of the reader the cache is sorted ascending
\* by pickup_date.
C6_Sorted == IsSortedByDate(_schedules)

\* A calendar that lists its dates out of order has been stored.
C6_Witness ==
    /\ pc = "returned"
    /\ outcome = "ok"
    /\ Len(_schedules) > 2
    /\ ~IsSortedByDate(schedules)

\* C7: at every point of an update the cache is the complete snapshot held
\* before the call, the empty list, or the complete sorted parse of the
\* calendar the call fetched.
C7_NeverPartial ==
    pc # "idle"
        => \/ _schedules = held
           \/ _schedules = <<>>
           \/ /\ pickup_calendar # None
              /\ CalendarParses(waste_calendar)
              /\ _schedules = Snapshot(waste_calendar)

\* Parsing failed after some records were built, a snapshot being held.
C7_Witness ==
    /\ ParseErrorRaised
    /\ schedules # <<>>
    /\ held # <<>>

\* C8: next_collection() is absent iff the cache is empty, and otherwise is
\* a record of the cache with the minimum pickup_date.
C8_NextCollection ==
    LET r == next_collection(_schedules)
    IN  /\ r = None <=> _schedules = <<>>
        /\ r # None
             => /\ \E k \in 1..Len(_schedules) : _schedules[k] = r[1]
                /\ \A k \in 1..Len(_schedules) :
                      DateLE(r[1].pickup_date, _schedules[k].pickup_date)

\* The cache holds records of different dates.
C8_Witness ==
    /\ pc = "idle"
    /\ Len(_schedules) > 1
    /\ _schedules[1].pickup_date # Last(_schedules).pickup_date

\* The trash types asked for: those the API reported and one it did not.
QueriedTypes == {GREY, PAPER, GLASS, Upper(KeyGreen)}

\* C9: for every trash type T, next_collection_of(T) is absent if no record
\* has trash_type T, and otherwise is a record of type T with the minimum
\* pickup_date over the records of type T.
C9_NextCollectionOf ==
    \A T \in QueriedTypes :
        LET r == next_collection_of(_schedules, T)
            of_type == {k \in 1..Len(_schedules) : _schedules[k].trash_type = T}
        IN  /\ of_type = {} => r = None
            /\ of_type # {}
                 => /\ r # None
                    /\ r[1].trash_type = T
                    /\ \E k \in of_type : _schedules[k] = r[1]
                    /\ \A k \in of_type :
                          DateLE(r[1].pickup_date, _schedules[k].pickup_date)

\* The cache holds several GREY records after a PAPER one, and no GLASS.
C9_Witness ==
    /\ pc = "idle"
    /\ Cardinality({k \in 1..Len(_schedules) : _schedules[k].trash_type = GREY}) > 1
    /\ _schedules[1].trash_type = GREY
    /\ _schedules[2].trash_type = PAPER
    /\ next_collection_of(_schedules, GLASS) = None

\* The dates asked for: the clock's days and the day after the last.
QueriedDates == {AddDays(StartDate, n) : n \in 0..(MaxDay + 1)}

\* C10: for every date d, collection_on(d) is absent iff no record has
\* pickup_date d, and a record it returns is in the cache and dated d.
C10_CollectionOn ==
    \A d \in QueriedDates :
        LET r == collection_on(_schedules, d)
            on_d == {k \in 1..Len(_schedules) : _schedules[k].pickup_date = d}
        IN  /\ r = None <=> on_d = {}
            /\ r # None
                 => /\ r[1].pickup_date = d
                    /\ \E k \in on_d : _schedules[k] = r[1]

\* The cache has a record on one queried date and none on an earlier one.
C10_Witness ==
    /\ pc = "idle"
    /\ collection_on(_schedules, StartDate) = None
    /\ collection_on(_schedules, AddDays(StartDate, 2)) # None

\* An entity runs its query (next_collection_of, collection_today or
\* collection_tomorrow, the latter two through collection_on) and stores the
\* result.
QueryStep == pc \in {"returned_early", "returned"} /\ pc' = "idle"

\* C11: a query leaves the cache and the watermark unchanged and issues no
\* request, whatever the state it runs in (after a fetch, after a throttled
\* call, after a failed refresh).
C11_QueriesArePure ==
    [][QueryStep => UNCHANGED <<_schedules, _lastupdated, requests>>]_vars

\* A query has run after a refresh that failed on a transport error.
C11_Witness ==
    /\ pc = "idle"
    /\ outcome = "transport"
    /\ exc = "None"

\* update() has just returned from a fetch whose calendar was parsed.
FetchReturned == pc = "returned" /\ outcome = "ok"

RECURSIVE SumOfDates(_)
SumOfDates(dataList) ==
    IF dataList = <<>> THEN 0
    ELSE SumOfDates(SubSeq(dataList, 1, Len(dataList) - 1))
            + Len(dataList[Len(dataList)].pickupDates)

\* The (pickup type, pickup date) positions of a dataList.
Pairs(dataList) ==
    {<<a, b>> \in (1..Len(dataList)) \X (1..SumOfDates(dataList)) :
        b <= Len(dataList[a].pickupDates)}

\* The record a position stands for: its entry's _pickupTypeText and the date
\* written in the first 10 characters of its date string.
PairRecord(dataList, pair) ==
    WasteSchedule(dataList[pair[1]]._pickupTypeText,
                  StrpDate(Slice10(dataList[pair[1]].pickupDates[pair[2]])))

\* The payload of the round-trip example, with the record it must yield.
ExampleCalendar == [dataList |-> <<PickupType(GREY, <<S_0301>>)>>]

ExampleSchedules ==
    <<[trash_type |-> GREY, pickup_date |-> [year |-> 2024, month |-> 3, day |-> 1]]>>

\* C12: parsing yields exactly one record per (trash type entry, pickup date
\* entry) pair: as many records as the pickupDates lists have entries, each
\* record as often as pairs stand for it, each carrying its entry's
\* _pickupTypeText and the date of the first 10 characters of its date
\* string; one GREY entry dated 2024-03-01T00:00:00 yields exactly
\* [WasteSchedule(GREY, 2024-03-01)].
C12_OneRecordPerPair ==
    FetchReturned
        => LET dataList == waste_calendar.dataList
           IN  /\ Len(_schedules) = SumOfDates(dataList)
               /\ \A p \in Pairs(dataList) :
                     Cardinality({k \in 1..Len(_schedules) :
                                    _schedules[k] = PairRecord(dataList, p)})
                       = Cardinality({q \in Pairs(dataList) :
                                    PairRecord(dataList, q) = PairRecord(dataList, p)})
               /\ waste_calendar = ExampleCalendar => _schedules = ExampleSchedules

\* A calendar with several dates per trash type, one of them with a time of
\* day other than midnight, has been parsed.
C12_Witness ==
    /\ FetchReturned
    /\ Len(waste_calendar.dataList) = 2
    /\ Len(waste_calendar.dataList[2].pickupDates) = 3
    /\ Len(_schedules) = 5
    /\ \E k \in 1..5 :
          _schedules[k] = [trash_type |-> GREY,
                           pickup_date |-> [year |-> 2024, month |-> 3, day |-> 2]]

\* The example payload has been parsed.
C12_ExampleReached == FetchReturned /\ waste_calendar = ExampleCalendar

\* A watermark was stored by the instance's own update: an instance whose
\* watermark is day d went past the throttle on day d itself.
WatermarkIsOwn ==
    \A r \in ReaderIds :
        readers[r]._lastupdated # None
            => readers[r]._lastupdated[1] \in readers[r].fetched

\* This step is an update() call on instance r.
UpdateStep(r) == readers'[r].called # readers[r].called

\* An update of one instance, throttled, failed or successful, leaves the
\* cache and the watermark of the other instances as they were.
OthersUntouched ==
    \A r \in ReaderIds :
        UpdateStep(r) => \A o \in ReaderIds \ {r} :
                          /\ readers'[o]._schedules = readers[o]._schedules
                          /\ readers'[o]._lastupdated = readers[o]._lastupdated

\* An instance whose own watermark is not today's date fetches, whatever the
\* other instances did today; one whose watermark is today's date does not.
OwnThrottleOnly ==
    \A r \in ReaderIds :
        UpdateStep(r)
            => IF readers[r]._lastupdated # Some(now)
               THEN /\ now \in readers'[r].fetched
                    /\ readers'[r]._lastupdated = Some(now)
               ELSE /\ readers'[r].fetched = readers[r].fetched
                    /\ readers'[r]._schedules = readers[r]._schedules
                    /\ readers'[r]._lastupdated = readers[r]._lastupdated

\* C13: the throttle and the cache are per reader instance: a refresh of A
\* (successful, failed or throttled) leaves B's cache and watermark
\* unchanged, and a refresh of A on day d does not keep B from fetching on
\* day d.
C13_PerInstance ==
    /\ []WatermarkIsOwn
    /\ [][OthersUntouched]_vars
    /\ [][OwnThrottleOnly]_vars

\* Both instances fetched on the same day and hold different caches.
C13_Witness ==
    /\ now \in readers["A"].fetched
    /\ now \in readers["B"].fetched
    /\ readers["A"]._schedules # <<>>
    /\ readers["B"]._schedules = <<>>
    /\ now # StartDate

\* The entity's update() ends in this step, reader.update() having raised.
RefreshFailsInEntity == pc = "raised" /\ pc' = "idle"

\* The latest entity update ended by raising exc to the host: the entities
\* have no handler, what reader.update() raises leaves their update().
EntityUpdateRaised == pc = "idle" /\ exc # "None"

\* The entity shows its no-data state: None for a type sensor, 'Geen' for
\* the today and tomorrow sensors.
ShowsNoData(e, schedule) ==
    IF IsDayEntity(e) THEN DaySensorState(schedule) = "Geen"
    ELSE TypeSensorState(schedule) = None

\* C14: when the reader's refresh fails inside an entity's update, the
\* entity does not pass the exception on to the host; it ends the update
\* holding an absent schedule and shows its no-data state, not the schedule
\* it held before the update.
C14_FailureShowsNoData ==
    [][RefreshFailsInEntity
         => /\ ~EntityUpdateRaised'
            /\ _schedule'[caller[1]] = None
            /\ ShowsNoData(caller[1], _schedule'[caller[1]])]_vars

\* The calendar's days around the clock's, written out.
CalendarDays ==
    <<[year |-> 2024, month |-> 2, day |-> 28],
      [year |-> 2024, month |-> 2, day |-> 29],
      [year |-> 2024, month |-> 3, day |-> 1],
      [year |-> 2024, month |-> 3, day |-> 2],
      [year |-> 2024, month |-> 3, day |-> 3],
      [year |-> 2024, month |-> 3, day |-> 4],
      [year |-> 2024, month |-> 3, day |-> 5]>>

\* The day after the clock's day, read off the calendar.
DayAfterNow ==
    CalendarDays[(CHOOSE k \in 1..Len(CalendarDays) : CalendarDays[k] = now) + 1]

\* The date a today or tomorrow entity asks for.
AskedDate(e) == IF Resources[e] = KeyToday THEN now ELSE DayAfterNow

\* A today or tomorrow entity stores its query's result in this step.
DayEntityStores(e) ==
    /\ pc \in {"returned_early", "returned"}
    /\ pc' = "idle"
    /\ caller = Some(e)
    /\ IsDayEntity(e)

\* With no record on the asked date the entity holds None and shows 'Geen';
\* with one it holds a record of that date.
DayEntityResult ==
    \A e \in Entities :
        DayEntityStores(e)
            => IF \E k \in 1..Len(_schedules) :
                     _schedules[k].pickup_date = AskedDate(e)
               THEN /\ _schedule'[e] # None
                    /\ _schedule'[e][1].pickup_date = AskedDate(e)
               ELSE /\ _schedule'[e] = None
                    /\ DaySensorState(_schedule'[e]) = "Geen"

\* C15: collection_today() equals collection_on(current date) and
\* collection_tomorrow() equals collection_on(current date + 1 day); when no
\* record has that date the query returns absent and the today or tomorrow
\* entity's state after its update is 'Geen', no error being raised.
C15_TodayTomorrow ==
    /\ [](/\ collection_today = collection_on(_schedules, now)
          /\ collection_tomorrow = collection_on(_schedules, DayAfterNow))
    /\ [][DayEntityResult]_vars

\* The today entity, holding a record, is about to store the absent result
\* of a query on a cache that has records, none of them today.
C15_Witness ==
    /\ pc = "returned"
    /\ caller = Some(1)
    /\ _schedules # <<>>
    /\ collection_today = None
    /\ collection_tomorrow # None
    /\ _schedule[1] # None
    /\ now = [year |-> 2024, month |-> 2, day |-> 29]

\* C19: the today and tomorrow entities produce a display state without
\* raising for every trash type the API can report: a type outside
\* SENSOR_TYPES falls back to a synthesized name.
C19_UnknownTypeHasState ==
    \A e \in Entities :
        IsDayEntity(e) => DaySensorState(_schedule[e]) # "KeyError"

\* A request of the given action is issued in this step.
Issues(action) ==
    /\ Len(requests') = Len(requests) + 1
    /\ Last(requests').action = action

\* The request before the latest one.
Previous(log) == log[Len(log) - 1]

\* The log ends with both requests of the refresh of the current watermark
\* answered: FetchAdress, then GetCalendar with the id FetchAdress resolved.
BothAnswered(log) ==
    /\ Len(log) >= 2
    /\ Last(log).action = "GetCalendar"
    /\ Last(log).result = "Response"
    /\ Last(log).lastupdated = _lastupdated
    /\ Previous(log).action = "FetchAdress"
    /\ Previous(log).result = "Response"
    /\ Previous(log).lastupdated = _lastupdated

\* Line 124 comes first: the watermark is set to the day's date with no
\* request issued, and FetchAdress is issued only from there.
StampThenFetchAdress ==
    /\ pc = "stamp" /\ pc' # "stamp"
           => /\ _lastupdated' = Some(now)
              /\ requests' = requests
              /\ pc' = "find_address"
    /\ pc' = "find_address" /\ pc # "find_address" => pc = "stamp"
    /\ Issues("FetchAdress") => /\ pc = "find_address"
                                /\ _lastupdated # None
                                /\ Last(requests').lastupdated = _lastupdated
                                /\ _lastupdated' = _lastupdated

\* GetCalendar is issued only after FetchAdress of the same refresh was
\* answered and resolved, and carries the id it resolved: the UniqueId of the
\* first address, which is 'address-1' in every answer of AddressResponses.
FetchAdressThenGetCalendar ==
    Issues("GetCalendar")
        => /\ pc = "get_calendar"
           /\ Last(requests).action = "FetchAdress"
           /\ Last(requests).result = "Response"
           /\ Last(requests).lastupdated = Last(requests').lastupdated
           /\ Last(requests').lastupdated = _lastupdated
           /\ address_id # None
           /\ Last(requests').uniqueAddressId = address_id
           /\ address_id = Some("address-1")

\* self._schedules is given a parsed snapshot only by the step that ends
\* _parse_calendar, after both requests of this refresh were answered.
GetCalendarThenReplace ==
    /\ pc' = "returned" /\ pc # "returned"
           => /\ pc = "parse"
              /\ requests' = requests
              /\ BothAnswered(requests)
    /\ _schedules' # _schedules /\ _schedules' # <<>>
           => pc' = "returned" /\ pc # "returned"

\* A refresh whose address resolution failed issued no GetCalendar request.
NoCalendarWithoutAddress ==
    pc = "raised" /\ outcome \in {"address_not_found", "address_malformed"}
        => Last(requests).action = "FetchAdress"

\* C16: within one non-throttled refresh the order is: the watermark is set
\* to today, then the FetchAdress request, then the GetCalendar request with
\* the address id FetchAdress returned, then the replacement of the
\* schedules; a failed address resolution is followed by no GetCalendar
\* request, and a refresh in which a request failed never replaces the
\* schedules by a parsed snapshot.
C16_RefreshOrder ==
    /\ [][StampThenFetchAdress]_vars
    /\ [][FetchAdressThenGetCalendar]_vars
    /\ [][GetCalendarThenReplace]_vars
    /\ []NoCalendarWithoutAddress

\* A refresh went through all four steps and the cache holds its snapshot,
\* after an earlier refresh whose FetchAdress request failed.
C16_Witness ==
    /\ FetchReturned
    /\ BothAnswered(requests)
    /\ Last(requests).uniqueAddressId = Some("address-1")
    /\ _schedules # <<>>
    /\ Len(requests) >= 4
    /\ requests[2].action = "FetchAdress"
    /\ requests[2].result # "Response"

\* The date a pickupDates entry of the payload stands for.
PayloadDate(a, b) == StrpDate(Slice10(waste_calendar.dataList[a].pickupDates[b]))

\* The dataList positions whose pickupDates hold the date d.
TypesOn(d) ==
    {a \in 1..Len(waste_calendar.dataList) :
        \E b \in 1..Len(waste_calendar.dataList[a].pickupDates) :
            PayloadDate(a, b) = d}

\* The earliest date of the payload: no entry is before it.
IsEarliest(d) ==
    /\ TypesOn(d) # {}
    /\ \A a \in 1..Len(waste_calendar.dataList) :
          \A b \in 1..Len(waste_calendar.dataList[a].pickupDates) :
              DateLE(d, PayloadDate(a, b))

\* The record of date d of the type that comes first in dataList.
FirstInPayload(d) ==
    LET a == CHOOSE a \in TypesOn(d) : \A c \in TypesOn(d) : a <= c
    IN  WasteSchedule(waste_calendar.dataList[a]._pickupTypeText, d)

\* The records of date d in the list, in the list's order.
DatedOn(list, d) ==
    LET OnD(s) == s.pickup_date = d
    IN  SelectSeq(list, OnD)

\* C17: when records share a pickup date d, collection_on(d) returns a
\* record dated d and the tie-break is payload order: records of one date
\* keep in the schedules the order in which the payload produced them
\* (dataList order, then pickupDates order), so collection_on(d) and
\* next_collection() return the record of the trash type that comes first
\* in dataList.
C17_TiesInPayloadOrder ==
    FetchReturned
        => \A d \in QueriedDates :
              /\ DatedOn(_schedules, d)
                    = DatedOn(RecordsOf(waste_calendar.dataList), d)
              /\ TypesOn(d) # {}
                    => /\ collection_on(_schedules, d) = Some(FirstInPayload(d))
                       /\ collection_on(_schedules, d)[1].pickup_date = d
              /\ IsEarliest(d)
                    => next_collection(_schedules) = Some(FirstInPayload(d))

\* The fetched payload has GLASS and, later in dataList, PAPER on its
\* earliest day; the queries return the GLASS record.
C17_Witness ==
    /\ FetchReturned
    /\ Len(_schedules) = 2
    /\ _schedules[1].pickup_date = _schedules[2].pickup_date
    /\ _schedules[1].trash_type = GLASS
    /\ _schedules[2].trash_type = PAPER
    /\ next_collection(_schedules) = Some(_schedules[1])
    /\ collection_on(_schedules, _schedules[2].pickup_date) = Some(_schedules[1])

\* C18: no stale snapshot survives a refresh attempt: when a refresh of
\* day d has ended and the schedules are non-empty, they are the parse of the
\* calendar payload that refresh fetched; after a refresh that ended in an
\* error (transport, address not found or parse) the schedules do not hold
\* the snapshot of an earlier day.
C18_NoStaleSnapshot ==
    /\ pc = "raised" => _schedules = <<>>
    /\ pc = "returned" /\ _schedules # <<>>
           => /\ BothAnswered(requests)
              /\ _schedules = Snapshot(waste_calendar)

====
